---- MODULE Spec2Model ----
(***************************************************************************)
(* Notification dispatch and deduplication of unbuilt-api.                 *)
(*                                                                         *)
(* Three drafts of the Contentful publish webhook and the scheduled cron   *)
(* job are modelled as invocations that advance from one await point to    *)
(* the next.  The Recipient Store (user_push_tokens) is read only, the     *)
(* Delivery Ledger (notification_history) is a bag of (user, item) rows.   *)
(* The push gateway, the content store and the datastore are the           *)
(* environment: every call draws its outcome from a small set.             *)
(***************************************************************************)
EXTENDS Integers, Sequences, FiniteSets, TLC

\* ------------------------------------------------------------------ bounds
\* Starting an invocation is allowed while the ledger holds fewer rows.
MaxLedger == 2

\* ------------------------------------------------------- program constants
MinutesPerQuarter == 15
MinutesPerHour == 60
HoursPerDay == 24
Tolerance == 7

MinutesPerDay == HoursPerDay * MinutesPerHour

\* ------------------------------------------------------------ input domains
Procs == {1, 2}
UserIds == {"u1", "u2"}
ItemIds == {"p1", "p2"}

WebhookKinds == {"caseFile", "project", "logOnly"}

\* What the push gateway does with one request: an 'ok' ticket, an error
\* ticket, a body without data, or a transport / JSON failure.
GatewayOutcomes == {"ok", "error", "nodata", "fail"}

\* Outcome of a datastore call: rows / success, or {data: null, error}.
DbOutcomes == {"ok", "error"}

\* ----------------------------------------------------------- small helpers
Range(s) == {s[i] : i \in 1..Len(s)}

EmptyLedger == [k \in UserIds \X ItemIds |-> 0]

RECURSIVE SumOver(_, _)
SumOver(keys, l) ==
    IF keys = {} THEN 0
    ELSE LET k == CHOOSE x \in keys : TRUE
         IN l[k] + SumOver(keys \ {k}, l)

\* Number of rows in notification_history.
LedgerSize(l) == SumOver(DOMAIN l, l)

\* notification_case_types column: null or an array of category names.
NullTypes == [isNull |-> TRUE, items |-> <<>>]

ArrayTypes(s) == [isNull |-> FALSE, items |-> s]

\* fields.fileCategory['en-US'] as received: absent, one value, or an array.
RawAbsent == [shape |-> "absent", vals |-> <<>>]

RawScalar(c) == [shape |-> "scalar", vals |-> <<c>>]

RawArray(s) == [shape |-> "array", vals |-> s]

\* ------------------------------------------------- push gateway (senders)
\* What the sender hands back to the handler for a gateway outcome.  The
\* case-file sender and the cron sender catch a failure and return null;
\* the project sender lets it propagate to the caller's try/catch.
sendPushNotification(kind, outcome) ==
    IF outcome = "fail"
    THEN IF kind = "project" THEN "throw" ELSE "null"
    ELSE outcome

sendNotification(outcome) ==
    IF outcome = "fail" THEN "null" ELSE outcome

\* result && result.data : any response that carries a data object.
HasData(result) == result \in {"ok", "error"}

\* A comparison with a status spelling the gateway never returns.
StatusOkUpperCase(result) == result = "OK"

\* result?.data?.status === 'ok'
StatusOk(result) == result = "ok"

\* A success test that accepts any answer carrying data, in every handler.
DispatchSucceededAnyData(kind, result) == HasData(result)

\* The success test each handler applies to the sender's result.
DispatchSucceeded(kind, result) ==
    IF kind = "caseFile" THEN HasData(result) ELSE StatusOk(result)

\* ------------------------------------------------------ webhook payload
\* fields.sendNotification['en-US']: boolean true, boolean false, missing,
\* or a truthy non-boolean such as the string "true".
FlagValues == {"true", "false", "absent", "string_true"}

\* A truthiness test in place of the strict comparison with true.
shouldSendNotificationTruthy(req) == req.sendNotification \in {"true", "string_true"}

\* fields?.sendNotification?.['en-US'] === true
shouldSendNotification(req) == req.sendNotification = "true"

\* Array.isArray(raw) ? raw : (raw ? [raw] : [])
fileCategory(raw) ==
    IF raw.shape = "array" THEN raw.vals
    ELSE IF raw.shape = "scalar" THEN <<raw.vals[1]>>
    ELSE <<>>

\* Every handler configured with the project tag.
NotifiableTypeProjectOnly(kind) == "project"

\* The content-type tag the handler of this kind notifies about.
NotifiableType(kind) == IF kind = "caseFile" THEN "redactedFileEntry" ELSE "project"

\* sys?.contentType?.sys?.id ; "absent" stands for undefined.
contentType(req) == IF req.sys = "absent" THEN "absent" ELSE req.contentType

\* Status the handler answers with before it reaches the recipient query,
\* or 0 when the event passes every check.  The log-only draft parses the
\* body and reads fields.title inside its outer try: both failures are 500.
EarlyStatus(kind, req) ==
    IF req.method # "POST" THEN 405
    ELSE IF req.body # "object" THEN (IF kind = "logOnly" THEN 500 ELSE 400)
    ELSE IF kind = "caseFile"
         THEN IF req.topic # "ContentManagement.Entry.publish" THEN 200
              ELSE IF req.sys = "absent" THEN 400
              ELSE IF contentType(req) # NotifiableType(kind) THEN 200
              ELSE IF ~shouldSendNotification(req) THEN 200
              ELSE 0
         ELSE IF req.topic # "ContentManagement.Entry.publish"
                 \/ contentType(req) # NotifiableType(kind) THEN 200
              ELSE IF kind = "logOnly" THEN (IF req.fields = "absent" THEN 500 ELSE 200)
              ELSE IF ~shouldSendNotification(req) THEN 200
              ELSE 0

\* The preference test without the length check.
HasPreferenceNoLength(user) == ~user.notification_case_types.isNull

\* userPreferredTypes && Array.isArray(..) && length > 0
HasPreference(user) ==
    ~user.notification_case_types.isNull /\ Len(user.notification_case_types.items) > 0

\* every() in place of some().
hasMatchingTypeEvery(categories, user) ==
    \A i \in 1..Len(categories) :
        \E j \in 1..Len(user.notification_case_types.items) :
            user.notification_case_types.items[j] = categories[i]

\* caseFile.fileCategory.some(category => userPreferredTypes.includes(category))
hasMatchingType(categories, user) ==
    \E i \in 1..Len(categories) :
        \E j \in 1..Len(user.notification_case_types.items) :
            user.notification_case_types.items[j] = categories[i]

\* The recipient query without its enabled filter.
EnabledUsersUnfiltered(table) == table

\* .eq('notifications_enabled', true)
EnabledUsers(table) == SelectSeq(table, LAMBDA u : u.notifications_enabled)

\* ------------------------------------------------------- scheduled slot
\* Math.floor in place of Math.round.
roundedMinuteFloor(currentMinute) ==
    (currentMinute \div MinutesPerQuarter) * MinutesPerQuarter

\* Math.round(currentMinute / 15) * 15 ; no minute is a tie.
roundedMinute(currentMinute) ==
    ((2 * currentMinute + MinutesPerQuarter) \div (2 * MinutesPerQuarter)) * MinutesPerQuarter

effectiveMinute(currentMinute) ==
    IF roundedMinute(currentMinute) = MinutesPerHour THEN 0 ELSE roundedMinute(currentMinute)

effectiveHour(currentHour, currentMinute) ==
    IF roundedMinute(currentMinute) = MinutesPerHour
    THEN (currentHour + 1) % HoursPerDay
    ELSE currentHour

\* The window one minute wider on each side.
SlotFilterWide(u, effHour, effMinute) ==
    /\ u.notifications_enabled
    /\ u.notification_hour = effHour
    /\ u.notification_minute >= effMinute - (Tolerance + 1)
    /\ u.notification_minute <= effMinute + (Tolerance + 1)

\* The window with gt / lt in place of gte / lte.
SlotFilterExclusive(u, effHour, effMinute) ==
    /\ u.notifications_enabled
    /\ u.notification_hour = effHour
    /\ u.notification_minute > effMinute - Tolerance
    /\ u.notification_minute < effMinute + Tolerance

\* The four filters of the scheduled recipient query on one row.
SlotFilter(u, effHour, effMinute) ==
    /\ u.notifications_enabled
    /\ u.notification_hour = effHour
    /\ u.notification_minute >= effMinute - Tolerance
    /\ u.notification_minute <= effMinute + Tolerance

ScheduledUsers(table, effHour, effMinute) ==
    SelectSeq(table, LAMBDA u : SlotFilter(u, effHour, effMinute))

\* ------------------------------------------------------ history lookup
\* notification_history rows of the user restricted to the fetched ids;
\* a failed query yields data = null, which the handler reads as no rows.
notifiedProjectIds(l, userId, recentProjects, dbOutcome) ==
    IF dbOutcome = "error" THEN {}
    ELSE {x \in Range(recentProjects) : l[<<userId, x>>] > 0}

\* recentProjects.filter(p => !notifiedProjectIds.has(p.id))
newProjects(recentProjects, notified) ==
    SelectSeq(recentProjects, LAMBDA x : x \notin notified)

\* A keyed write that keeps one row per (user_id, project_id).
InsertRowOnce(l, key) == [l EXCEPT ![key] = 1]

\* .insert({user_id, project_id, notified_at}): one more row, whatever the
\* table already holds.
InsertRow(l, key) == [l EXCEPT ![key] = @ + 1]

\* A write that, when it fails, clears the records of the pair.
WriteResultClearingOnError(l, key, dbOutcome) ==
    IF dbOutcome = "ok" THEN InsertRow(l, key) ELSE [l EXCEPT ![key] = 0]

\* The table after the awaited insert: the new row, or the table as it was
\* when the insert returned {error}.
WriteResult(l, key, dbOutcome) ==
    IF dbOutcome = "ok" THEN InsertRow(l, key) ELSE l

\* A check that only asks for some authorization header.
AuthorizedIfPresent(auth) == auth # "missing"

\* authHeader !== `Bearer ${process.env.CRON_SECRET}` rejects; "secret"
\* stands for the header that carries the configured secret.
Authorized(auth) == auth = "secret"

\* A fetch whose failure is not noticed: the entries come back anyway.
getRecentProjectsUncaught(fetchOutcome, entries) == entries

\* getRecentProjects: the mapped entries, or [] from the catch when the
\* content store call fails.
getRecentProjects(fetchOutcome, entries) ==
    IF fetchOutcome = "error" THEN <<>> ELSE entries

\* A job without the early return on an empty fetch.
NoRecentProjectsIgnored(recent) == FALSE

\* recentProjects.length === 0
NoRecentProjects(recent) == Len(recent) = 0

\* ------------------------------------------------------------- requests
PublishTopic == "ContentManagement.Entry.publish"

NoReq ==
    [method |-> "none", body |-> "none", topic |-> "none", sys |-> "absent",
     contentType |-> "absent", fields |-> "absent", sendNotification |-> "absent",
     fileCategory |-> RawAbsent, id |-> "none"]

RawCategories ==
    {RawAbsent, RawScalar("architecture"), RawArray(<<"architecture", "design">>)}

\* Events with a parsed body; a payload without sys has no id and no
\* content-type tag, a payload without fields has no flag and no category.
ParsedRequests ==
    {r \in [method : {"POST"}, body : {"object"},
            topic : {PublishTopic, "ContentManagement.Entry.save"},
            sys : {"absent", "present"},
            contentType : {"absent", "project", "redactedFileEntry"},
            fields : {"absent", "present"},
            sendNotification : FlagValues,
            fileCategory : RawCategories,
            id : ItemIds \cup {"none"}] :
        /\ (r.sys = "absent") => (r.contentType = "absent")
        /\ (r.sys = "absent") <=> (r.id = "none")
        /\ (r.fields = "absent") =>
               (r.sendNotification = "absent" /\ r.fileCategory = RawAbsent)}

Requests ==
    {[NoReq EXCEPT !.method = "GET"],
     [NoReq EXCEPT !.method = "POST", !.body = "missing"],
     [NoReq EXCEPT !.method = "POST", !.body = "invalid"]}
    \cup ParsedRequests

\* ------------------------------------------------------ recipient store
CaseTypeChoices ==
    {NullTypes, ArrayTypes(<<>>), ArrayTypes(<<"design">>)}

\* Preferred (hour, minute) pairs a recipient may have registered.
PrefSlots == {<<9, 8>>, <<9, 10>>, <<9, 22>>, <<9, 25>>, <<10, 15>>, <<0, 5>>}

UserRow(id, enabled, types, slot) ==
    [user_id |-> id, notifications_enabled |-> enabled,
     notification_case_types |-> types,
     notification_hour |-> slot[1], notification_minute |-> slot[2]]

UserRows(id) ==
    {UserRow(id, e, t, s) : e \in BOOLEAN, t \in CaseTypeChoices, s \in PrefSlots}

\* Tables of the publish path vary the category preference, tables of the
\* scheduled path vary the preferred slot.
CategoryTables ==
    {<<a, b>> : a \in {r \in UserRows("u1") : r.notification_hour = 9 /\ r.notification_minute = 10},
                b \in {r \in UserRows("u2") : r.notification_hour = 9 /\ r.notification_minute = 10}}

SlotTables ==
    {<<a, b>> : a \in {r \in UserRows("u1") : r.notification_case_types = NullTypes},
                b \in {r \in UserRows("u2") : r.notification_case_types = NullTypes}}

\* ---------------------------------------------------------- content store
\* Result of getEntries for the trailing 24 hours, newest first; "error"
\* makes getRecentProjects return the empty list.
ContentResults == {<<>>, <<"p1">>, <<"p2", "p1">>}

\* The authorization header of a trigger: the configured bearer secret,
\* another value, or no header.
AuthHeaders == {"secret", "wrong", "missing"}

\* Times of day (UTC hour, minute) at which the job is triggered.
CronTimes == {<<9, 15>>, <<9, 20>>, <<23, 55>>}

\* ---------------------------------------------------------------- state
VARIABLES
    users,      \* user_push_tokens, in the order queries return rows
    ledger,     \* notification_history as a bag: (user, item) -> rows
    inv,        \* per process: the invocation it runs
    lastRun,    \* history: the slot of the scheduled run that answered last
    pref,       \* slot coverage: the preference under study
    clock,      \* slot coverage: minute of the day of the next run
    matchedAt,  \* slot coverage: effective slots whose run matched pref
    slot        \* slot coverage: effective (hour, minute) of the last run

vars == <<users, ledger, inv, lastRun, pref, clock, matchedAt, slot>>

slotVars == <<pref, clock, matchedAt, slot>>

NoItem == [id |-> "none", fileCategory |-> <<>>]

IdleInv ==
    [pc |-> "idle", kind |-> "none", req |-> NoReq,
     auth |-> "none", now |-> <<0, 0>>, fetch |-> "none",
     effHour |-> 0, effMinute |-> 0,
     item |-> NoItem, recentProjects |-> <<>>,
     queried |-> FALSE, userError |-> FALSE, userList |-> <<>>, idx |-> 1, project |-> "none",
     sent |-> 0, skipped |-> 0, errors |-> 0, status |-> 0,
     dispatched |-> <<>>, ledger0 |-> EmptyLedger]

Ready(p) == inv[p].pc = "idle"

\* No scheduled run with a summary was the last invocation to answer.
NoRun == [kind |-> "other", slot |-> <<0, 0>>]

\* Tables on which both paths are exercised together.
MixedTables ==
    {<<a, b>> : a \in {UserRow("u1", e, c[1], c[2]) : e \in BOOLEAN,
                          c \in {<<NullTypes, <<9, 10>>>>, <<ArrayTypes(<<"design">>), <<9, 25>>>>}},
                b \in {UserRow("u2", e, c[1], c[2]) : e \in BOOLEAN,
                          c \in {<<NullTypes, <<9, 10>>>>, <<ArrayTypes(<<"design">>), <<9, 25>>>>}}}

InitWith(tables) ==
    /\ users \in tables
    /\ ledger = EmptyLedger
    /\ inv = [p \in Procs |-> IdleInv]
    /\ lastRun = NoRun
    /\ pref = <<0, 0>>
    /\ clock = MinutesPerDay
    /\ matchedAt = {}
    /\ slot = <<0, 0>>

\* A summary that loses the failures: the else branch and the catch no
\* longer count.
TallyWithoutErrors(r, counter) ==
    IF counter = "errors" THEN r ELSE [r EXCEPT ![counter] = @ + 1]

\* sent++ / skipped++ / errors++ (notificationsSent++ in the job).
Tally(r, counter) == [r EXCEPT ![counter] = @ + 1]

\* The job counting a dispatch as sent only when its record was stored.
CountSentIfStored(r, dbOutcome) ==
    IF dbOutcome = "ok" THEN Tally(r, "sent") ELSE Tally(r, "errors")

\* notificationsSent++ after the awaited insert, whose result is not read.
CountSent(r, dbOutcome) == Tally(r, "sent")

\* A loop without the per-recipient try/catch: the first failure reaches
\* the handler's outer catch and the remaining recipients are dropped.
NextUserAbortOnError(r) ==
    IF r.errors > 0 /\ r.idx < Len(r.userList)
    THEN [r EXCEPT !.pc = "done", !.status = 500]
    ELSE IF r.idx >= Len(r.userList)
    THEN [r EXCEPT !.idx = r.idx + 1, !.pc = "done", !.status = 200]
    ELSE [r EXCEPT !.idx = r.idx + 1,
                   !.pc = IF r.kind = "cron" THEN "lookup" ELSE "send"]

\* Move on to the next recipient, or answer 200 with the summary after the
\* last one.
NextUser(r) ==
    IF r.idx >= Len(r.userList)
    THEN [r EXCEPT !.idx = r.idx + 1, !.pc = "done", !.status = 200]
    ELSE [r EXCEPT !.idx = r.idx + 1,
                   !.pc = IF r.kind = "cron" THEN "lookup" ELSE "send"]

\* ------------------------------------------------- Publish-Event Handler
\* From the request to the answer of the recipient query.
WebhookStart(p, kind, req, dbOutcome) ==
    /\ Ready(p)
    /\ LedgerSize(ledger) < MaxLedger
    /\ LET early == EarlyStatus(kind, req)
           base == [IdleInv EXCEPT !.kind = kind, !.req = req, !.ledger0 = ledger]
           found == EnabledUsers(users)
           item == [id |-> req.id, fileCategory |-> fileCategory(req.fileCategory)]
       IN inv' = [inv EXCEPT ![p] =
              IF early # 0
              THEN [base EXCEPT !.pc = "done", !.status = early]
              ELSE IF dbOutcome = "error"
              THEN [base EXCEPT !.pc = "done", !.status = 500, !.item = item,
                                !.queried = TRUE, !.userError = TRUE]
              ELSE IF Len(found) = 0
              THEN [base EXCEPT !.pc = "done", !.status = 200, !.item = item,
                                !.queried = TRUE]
              ELSE [base EXCEPT !.pc = "send", !.item = item, !.queried = TRUE,
                                !.userList = found]]
    /\ UNCHANGED <<users, ledger, lastRun, slotVars>>

\* One pass of the recipient loop up to the answer of the gateway.
WebhookDispatch(p, outcome) ==
    /\ inv[p].pc = "send"
    /\ inv[p].kind \in WebhookKinds
    /\ LET r == inv[p]
           user == r.userList[r.idx]
           result == sendPushNotification(r.kind, outcome)
           logged == [r EXCEPT !.dispatched =
                         Append(@, [user |-> user.user_id, item |-> r.item.id,
                                    result |-> result])]
       IN IF r.kind = "caseFile" /\ HasPreference(user)
                /\ ~hasMatchingType(r.item.fileCategory, user)
          THEN inv' = [inv EXCEPT ![p] = NextUser(Tally(r, "skipped"))]
          ELSE inv' = [inv EXCEPT ![p] =
                   IF DispatchSucceeded(r.kind, result)
                   THEN IF r.kind = "project"
                        THEN [Tally(logged, "sent") EXCEPT !.pc = "insert"]
                        ELSE NextUser(Tally(logged, "sent"))
                   ELSE NextUser(Tally(logged, "errors"))]
    /\ UNCHANGED <<users, ledger, lastRun, slotVars>>

\* The history insert that follows a successful project dispatch; its
\* result is not inspected.
WebhookInsert(p, dbOutcome) ==
    /\ inv[p].pc = "insert"
    /\ inv[p].kind \in WebhookKinds
    /\ LET r == inv[p]
           key == <<r.userList[r.idx].user_id, r.item.id>>
       IN /\ ledger' = WriteResult(ledger, key, dbOutcome)
          /\ inv' = [inv EXCEPT ![p] = NextUser(r)]
    /\ UNCHANGED <<users, lastRun, slotVars>>

\* -------------------------------------------------- Scheduled Dispatch Job
\* From the trigger to the answer of the recipient query.  fetch is the
\* content store's answer: a list of ids, newest first, or an error.
CronStart(p, auth, now, fetchOutcome, entries, dbOutcome) ==
    /\ Ready(p)
    /\ LedgerSize(ledger) < MaxLedger
    /\ LET base == [IdleInv EXCEPT !.kind = "cron", !.auth = auth, !.ledger0 = ledger]
           recent == getRecentProjects(fetchOutcome, entries)
           timed == [base EXCEPT !.now = now, !.fetch = fetchOutcome,
                                 !.recentProjects = recent]
           eh == effectiveHour(now[1], now[2])
           em == effectiveMinute(now[2])
           slotted == [timed EXCEPT !.effHour = eh, !.effMinute = em, !.queried = TRUE]
           found == ScheduledUsers(users, eh, em)
       IN inv' = [inv EXCEPT ![p] =
              IF ~Authorized(auth)
              THEN [base EXCEPT !.pc = "done", !.status = 401]
              ELSE IF NoRecentProjects(recent)
              THEN [timed EXCEPT !.pc = "done", !.status = 200]
              ELSE IF dbOutcome = "error"
              THEN [slotted EXCEPT !.pc = "done", !.status = 500, !.userError = TRUE]
              ELSE IF Len(found) = 0
              THEN [slotted EXCEPT !.pc = "done", !.status = 200]
              ELSE [slotted EXCEPT !.pc = "lookup", !.userList = found]]
    /\ UNCHANGED <<users, ledger, lastRun, slotVars>>

\* The history lookup of the current recipient and the choice of the item.
CronLookup(p, dbOutcome) ==
    /\ inv[p].pc = "lookup"
    /\ LET r == inv[p]
           user == r.userList[r.idx]
           notified == notifiedProjectIds(ledger, user.user_id, r.recentProjects, dbOutcome)
           fresh == newProjects(r.recentProjects, notified)
       IN inv' = [inv EXCEPT ![p] =
              IF Len(fresh) = 0
              THEN NextUser(r)
              ELSE [r EXCEPT !.pc = "send", !.project = fresh[1]]]
    /\ UNCHANGED <<users, ledger, lastRun, slotVars>>

\* The push of the chosen item and the test of the gateway's answer.
CronDispatch(p, outcome) ==
    /\ inv[p].pc = "send"
    /\ inv[p].kind = "cron"
    /\ LET r == inv[p]
           user == r.userList[r.idx]
           result == sendNotification(outcome)
           logged == [r EXCEPT !.dispatched =
                         Append(@, [user |-> user.user_id, item |-> r.project,
                                    result |-> result])]
       IN inv' = [inv EXCEPT ![p] =
              IF DispatchSucceeded("cron", result)
              THEN [logged EXCEPT !.pc = "insert"]
              ELSE NextUser(Tally(logged, "errors"))]
    /\ UNCHANGED <<users, ledger, lastRun, slotVars>>

\* The history insert after a successful push; the row is counted as sent
\* whatever the insert answers.
CronInsert(p, dbOutcome) ==
    /\ inv[p].pc = "insert"
    /\ inv[p].kind = "cron"
    /\ LET r == inv[p]
           key == <<r.userList[r.idx].user_id, r.project>>
       IN /\ ledger' = WriteResult(ledger, key, dbOutcome)
          /\ inv' = [inv EXCEPT ![p] = NextUser(CountSent(r, dbOutcome))]
    /\ UNCHANGED <<users, lastRun, slotVars>>

\* res.status(..).json(..): the answer leaves and the invocation is over.
Respond(p) ==
    /\ inv[p].pc = "done"
    /\ inv' = [inv EXCEPT ![p] = IdleInv]
    /\ lastRun' = IF inv[p].kind = "cron" /\ inv[p].queried /\ inv[p].status = 200
                  THEN [kind |-> "cron", slot |-> <<inv[p].effHour, inv[p].effMinute>>]
                  ELSE NoRun
    /\ UNCHANGED <<users, ledger, slotVars>>

\* ------------------------------------------------------- specifications
WebhookNext ==
    \/ \E kind \in WebhookKinds, req \in Requests, db \in DbOutcomes :
           WebhookStart(1, kind, req, db)
    \/ \E outcome \in GatewayOutcomes : WebhookDispatch(1, outcome)
    \/ \E db \in DbOutcomes : WebhookInsert(1, db)

CronNext ==
    \/ \E auth \in AuthHeaders, now \in CronTimes,
          fetchOutcome \in DbOutcomes, entries \in ContentResults, db \in DbOutcomes :
           CronStart(1, auth, now, fetchOutcome, entries, db)
    \/ \E db \in DbOutcomes : CronLookup(1, db)
    \/ \E outcome \in GatewayOutcomes : CronDispatch(1, outcome)
    \/ \E db \in DbOutcomes : CronInsert(1, db)

\* Sequential specifications run every invocation on process 1.
Init == InitWith(MixedTables)

Next == WebhookNext \/ CronNext \/ Respond(1)

Spec == Init /\ [][Next]_vars

\* The publish path alone, over every category preference.
WebhookInit == InitWith(CategoryTables)

WebhookSpecNext == WebhookNext \/ Respond(1)

WebhookSpec == WebhookInit /\ [][WebhookSpecNext]_vars

\* The scheduled path alone, over every preferred slot.
CronInit == InitWith(SlotTables)

CronSpecNext == CronNext \/ Respond(1)

CronSpec == CronInit /\ [][CronSpecNext]_vars

\* Both paths, one invocation after another, with every write to
\* notification_history succeeding; reads may still fail.
WriteOkNext ==
    \/ \E kind \in WebhookKinds, req \in Requests, db \in DbOutcomes :
           WebhookStart(1, kind, req, db)
    \/ \E outcome \in GatewayOutcomes : WebhookDispatch(1, outcome)
    \/ WebhookInsert(1, "ok")
    \/ \E auth \in AuthHeaders, now \in CronTimes,
          fetchOutcome \in DbOutcomes, entries \in ContentResults, db \in DbOutcomes :
           CronStart(1, auth, now, fetchOutcome, entries, db)
    \/ \E db \in DbOutcomes : CronLookup(1, db)
    \/ \E outcome \in GatewayOutcomes : CronDispatch(1, outcome)
    \/ CronInsert(1, "ok")
    \/ Respond(1)

WriteOkSpec == Init /\ [][WriteOkNext]_vars

\* Overlapping invocations: two serverless instances, each running the
\* scheduled job or the project publish handler, interleaved at their
\* await points. Every datastore read and write succeeds and every trigger
\* is authorized, so what is reached here is reached without any fault.
PublishRequests ==
    {r \in ParsedRequests : /\ EarlyStatus("project", r) = 0
                            /\ r.fileCategory = RawAbsent}

\* Both overlapping runs are triggered for the same quarter hour.
ConcTime == <<9, 15>>

ConcNext ==
    \E p \in Procs :
        \/ \E req \in PublishRequests : WebhookStart(p, "project", req, "ok")
        \/ \E outcome \in GatewayOutcomes : WebhookDispatch(p, outcome)
        \/ WebhookInsert(p, "ok")
        \/ \E entries \in ContentResults :
               CronStart(p, "secret", ConcTime, "ok", entries, "ok")
        \/ CronLookup(p, "ok")
        \/ \E outcome \in GatewayOutcomes : CronDispatch(p, outcome)
        \/ CronInsert(p, "ok")
        \/ Respond(p)

\* Recipient tables of the overlapping runs: each recipient enabled or not,
\* none with a category preference (the project handler and the job read
\* none).
ConcTables ==
    {t \in MixedTables : \A i \in 1..Len(t) : t[i].notification_case_types = NullTypes}

ConcInit == InitWith(ConcTables)

ConcSpec == ConcInit /\ [][ConcNext]_vars

\* Overlapping invocations with every fault: two instances, each running
\* any handler on a rejected, ignored or accepted request, with datastore
\* calls and gateway calls that may fail.  One item is published and
\* fetched, so that every invocation works on the same ledger rows.
FaultyRequests ==
    {r \in PublishRequests : r.id = "p1"}
    \cup {r \in Requests : r.method # "POST" \/ r.body # "object"}
    \cup {r \in ParsedRequests : /\ r.topic # PublishTopic
                                 /\ r.sys = "present"
                                 /\ r.contentType = "project"
                                 /\ r.fields = "present"
                                 /\ r.sendNotification = "true"
                                 /\ r.fileCategory = RawAbsent
                                 /\ r.id = "p1"}

AnyNext ==
    \E p \in Procs :
        \/ \E kind \in WebhookKinds, req \in FaultyRequests, db \in DbOutcomes :
               WebhookStart(p, kind, req, db)
        \/ \E outcome \in GatewayOutcomes : WebhookDispatch(p, outcome)
        \/ \E db \in DbOutcomes : WebhookInsert(p, db)
        \/ \E auth \in AuthHeaders, fetchOutcome \in DbOutcomes,
              entries \in {<<>>, <<"p1">>}, db \in DbOutcomes :
               CronStart(p, auth, ConcTime, fetchOutcome, entries, db)
        \/ \E db \in DbOutcomes : CronLookup(p, db)
        \/ \E outcome \in GatewayOutcomes : CronDispatch(p, outcome)
        \/ \E db \in DbOutcomes : CronInsert(p, db)
        \/ Respond(p)

AnySpec == ConcInit /\ [][AnyNext]_vars

\* ------------------------------------------------------- slot coverage
\* One recipient with a preferred (hour, minute); the job is triggered at
\* every minute of one day and its recipient query is run on the table.
PrefHours == 0..(HoursPerDay - 1)

SlotInit ==
    /\ pref \in PrefHours \X (0..(MinutesPerHour - 1))
    /\ users = <<UserRow("u1", TRUE, NullTypes, pref)>>
    /\ ledger = EmptyLedger
    /\ inv = [p \in Procs |-> IdleInv]
    /\ lastRun = NoRun
    /\ clock = 0
    /\ matchedAt = {}
    /\ slot = <<0, 0>>

\* The run triggered at minute clock of the day: slot rounding and the
\* recipient query.
SlotTick ==
    /\ clock < MinutesPerDay
    /\ LET currentHour == clock \div MinutesPerHour
           currentMinute == clock % MinutesPerHour
           eh == effectiveHour(currentHour, currentMinute)
           em == effectiveMinute(currentMinute)
       IN matchedAt' = IF Len(ScheduledUsers(users, eh, em)) > 0
                       THEN matchedAt \cup {<<eh, em>>}
                       ELSE matchedAt
    /\ slot' = <<effectiveHour(clock \div MinutesPerHour, clock % MinutesPerHour),
                 effectiveMinute(clock % MinutesPerHour)>>
    /\ clock' = clock + 1
    /\ UNCHANGED <<users, ledger, inv, lastRun, pref>>

SlotSpec == SlotInit /\ [][SlotTick]_vars

\* ================================================================ claims
\* Vocabulary of the claims, stated on the payload and the rows themselves.
Processed(r) == 1..(r.idx - 1)

DispatchedTo(r, userId) == {j \in 1..Len(r.dispatched) : r.dispatched[j].user = userId}

NoPreference(u) ==
    u.notification_case_types.isNull \/ u.notification_case_types.items = <<>>

DisjointPreference(u, categories) ==
    /\ ~NoPreference(u)
    /\ Range(u.notification_case_types.items) \cap Range(categories) = {}

ConfiguredType(kind) ==
    CASE kind = "caseFile" -> "redactedFileEntry"
      [] kind = "project" -> "project"
      [] kind = "logOnly" -> "project"
      [] OTHER -> "none"

IsPublishEvent(r) ==
    /\ r.kind \in {"caseFile", "project", "logOnly"}
    /\ r.req.method = "POST"
    /\ r.req.body = "object"
    /\ r.req.topic = "ContentManagement.Entry.publish"

TagMatches(r) == r.req.sys = "present" /\ r.req.contentType = ConfiguredType(r.kind)

\* The example of C2: item categories ["architecture"], R1 without a
\* preference, R2 preferring ["design"], every gateway answer 'ok'.
C2_Example(r) ==
    /\ r.pc = "done"
    /\ r.status = 200
    /\ r.queried
    /\ r.item.fileCategory = <<"architecture">>
    /\ Len(users) = 2
    /\ \A n \in 1..2 : users[n].notifications_enabled
    /\ \E n, k \in 1..2 :
          /\ NoPreference(users[n])
          /\ users[k].notification_case_types.items = <<"design">>
    /\ \A j \in 1..Len(r.dispatched) : r.dispatched[j].result = "ok"

\* C2: in the case-file handler a recipient whose non-empty category
\* preference shares nothing with the item's categories is not dispatched
\* to and is counted in skipped, never in sent or errors; categories
\* ["architecture"] with R1 (no preference), R2 (["design"]) and an ok
\* gateway end with sent = 1, skipped = 1, errors = 0.
C2_DisjointPreferenceSkipped ==
    \A p \in Procs :
        LET r == inv[p]
            skippedOnes == {i \in Processed(r) :
                               DisjointPreference(r.userList[i], r.item.fileCategory)}
        IN (r.kind = "caseFile" /\ r.pc \in {"send", "done"}) =>
            /\ \A i \in skippedOnes : DispatchedTo(r, r.userList[i].user_id) = {}
            /\ r.skipped = Cardinality(skippedOnes)
            /\ r.sent + r.errors = Len(r.dispatched)
            /\ Len(r.dispatched) = Cardinality(Processed(r) \ skippedOnes)
            /\ C2_Example(r) => (r.sent = 1 /\ r.skipped = 1 /\ r.errors = 0)

C2_Witness ==
    /\ inv[1].kind = "caseFile"
    /\ inv[1].pc = "done"
    /\ inv[1].item.fileCategory = <<"architecture">>
    /\ inv[1].sent = 1
    /\ inv[1].skipped = 1
    /\ inv[1].errors = 0
    /\ \E i \in 1..Len(inv[1].userList) :
           /\ inv[1].userList[i].notification_case_types.items = <<"design">>
           /\ DispatchedTo(inv[1], inv[1].userList[i].user_id) = {}

\* C3: every enabled recipient with an empty or absent category preference
\* gets a dispatch attempt for the item of a publish event that passes the
\* checks, whatever the categories of the item, none included.
C3_NoPreferenceDispatched ==
    \A p \in Procs :
        LET r == inv[p]
        IN (IsPublishEvent(r) /\ r.kind # "logOnly" /\ TagMatches(r)
               /\ r.req.sendNotification = "true"
               /\ r.pc = "done" /\ r.status = 200)
            => \A i \in 1..Len(users) :
                   (users[i].notifications_enabled /\ NoPreference(users[i]))
                       => \E j \in DispatchedTo(r, users[i].user_id) :
                              r.dispatched[j].item = r.req.id

C3_Witness ==
    /\ inv[1].kind = "caseFile"
    /\ inv[1].pc = "done"
    /\ inv[1].req.fileCategory.shape = "absent"
    /\ \E i, k \in 1..Len(users) :
           /\ users[i].notifications_enabled
           /\ users[i].notification_case_types = [isNull |-> FALSE, items |-> <<>>]
           /\ DispatchedTo(inv[1], users[i].user_id) # {}
           /\ users[k].notifications_enabled
           /\ users[k].notification_case_types.isNull
           /\ DispatchedTo(inv[1], users[k].user_id) # {}

\* C4: a publish event whose send-notification flag is anything but the
\* boolean true never reaches the dispatcher and writes no DeliveryRecord,
\* whatever its other fields are.
C4_FlagNotTrueNeverDispatches ==
    \A p \in Procs :
        LET r == inv[p]
        IN (r.kind \in {"caseFile", "project", "logOnly"}
               /\ r.req.sendNotification # "true")
            => /\ r.dispatched = <<>>
               /\ r.pc \notin {"send", "insert"}
               /\ ledger = r.ledger0

C4_Witness ==
    /\ inv[1].kind = "project"
    /\ IsPublishEvent(inv[1])
    /\ TagMatches(inv[1])
    /\ inv[1].req.sendNotification = "string_true"
    /\ inv[1].pc = "done"
    /\ inv[1].status = 200
    /\ inv[1].dispatched = <<>>
    /\ \E i \in 1..Len(users) : users[i].notifications_enabled

\* C5 as stated: a publish event with a parsed body whose content-type
\* tag is not the configured one, a missing tag or a missing sys object
\* included, is a no-op (no recipient query, no dispatch) answered 200.
C5_MismatchIsNoop200 ==
    \A p \in Procs :
        LET r == inv[p]
        IN (IsPublishEvent(r) /\ ~TagMatches(r) /\ r.pc = "done")
            => /\ r.status = 200
               /\ ~r.queried
               /\ r.dispatched = <<>>
               /\ ledger = r.ledger0

\* C5 amended: such an event is a no-op in every handler; the answer is
\* 200 except that the case-file handler answers a payload without a sys
\* object with 400.
C5_MismatchIsNoop ==
    \A p \in Procs :
        LET r == inv[p]
        IN (IsPublishEvent(r) /\ ~TagMatches(r) /\ r.pc = "done")
            => /\ r.status = IF r.kind = "caseFile" /\ r.req.sys = "absent"
                             THEN 400 ELSE 200
               /\ ~r.queried
               /\ r.dispatched = <<>>
               /\ ledger = r.ledger0

C5_Witness ==
    /\ inv[1].kind = "caseFile"
    /\ IsPublishEvent(inv[1])
    /\ inv[1].req.sys = "present"
    /\ inv[1].req.contentType = "project"
    /\ inv[1].req.sendNotification = "true"
    /\ inv[1].pc = "done"
    /\ inv[1].status = 200
    /\ ~inv[1].queried
    /\ \E i \in 1..Len(users) : users[i].notifications_enabled


\* C9: the recipients a scheduled run matches are exactly the enabled rows
\* whose preferred hour is the effective hour and whose preferred minute
\* is at most 7 away from the effective minute, both ends included; for
\* effective minute 15 the minutes 8..22 match, so 10 does and 25 does not.
InWindow(u, eh, em) ==
    /\ u.notifications_enabled
    /\ u.notification_hour = eh
    /\ \E d \in -7..7 : u.notification_minute = em + d

QueryAnswered(r) ==
    /\ r.kind = "cron"
    /\ r.queried
    /\ r.pc \in {"lookup", "send", "insert"} \/ (r.pc = "done" /\ r.status = 200)

C9_MatchedSetIsWindow ==
    \A p \in Procs :
        QueryAnswered(inv[p]) =>
            /\ \A i \in 1..Len(users) :
                   (users[i] \in Range(inv[p].userList))
                       <=> InWindow(users[i], inv[p].effHour, inv[p].effMinute)
            /\ inv[p].effMinute = 15 =>
                   \A i \in 1..Len(users) :
                       (users[i] \in Range(inv[p].userList)) <=>
                           /\ users[i].notifications_enabled
                           /\ users[i].notification_hour = inv[p].effHour
                           /\ users[i].notification_minute \in 8..22

C9_Witness ==
    /\ QueryAnswered(inv[1])
    /\ inv[1].effMinute = 15
    /\ \E u \in Range(inv[1].userList) : u.notification_minute = 10
    /\ \E i \in 1..Len(users) :
           /\ users[i].notifications_enabled
           /\ users[i].notification_hour = inv[1].effHour
           /\ users[i].notification_minute = 25
           /\ users[i] \notin Range(inv[1].userList)

\* C10: whatever hour and minute an enabled recipient prefers, some run of
\* a day in which the job is triggered at every minute matches it.
C10_EverySlotCovered ==
    (clock = MinutesPerDay /\ pref \in (0..23) \X (0..59)
        /\ Len(users) = 1 /\ users[1].notifications_enabled
        /\ users[1].notification_hour = pref[1]
        /\ users[1].notification_minute = pref[2])
    => matchedAt # {}

\* C6: a dispatch counts as sent only when the gateway answered with the
\* explicit status 'ok'; null, an answer without data and an answer whose
\* data has an error status count as errors, in the publish handlers and
\* in the scheduled job alike.
C6_OnlyOkCountsAsSent ==
    \A p \in Procs :
        LET r == inv[p]
            oks == {j \in 1..Len(r.dispatched) : r.dispatched[j].result = "ok"}
        IN r.pc = "done" =>
            /\ r.sent = Cardinality(oks)
            /\ r.errors = Len(r.dispatched) - Cardinality(oks)

\* C7: the Delivery Ledger changes only by one new row (recipient, item)
\* written by an invocation whose latest dispatch was of that item to that
\* recipient and was answered 'ok'; with the empty initial ledger, every
\* row follows such a dispatch and no other outcome writes a row.
LedgerWriteJustified ==
    \A k \in DOMAIN ledger :
        ledger'[k] # ledger[k] =>
            /\ ledger'[k] = ledger[k] + 1
            /\ \E p \in Procs :
                  /\ Len(inv[p].dispatched) > 0
                  /\ inv[p].dispatched[Len(inv[p].dispatched)]
                        = [user |-> k[1], item |-> k[2], result |-> "ok"]
                  /\ inv'[p].dispatched = inv[p].dispatched

C7_LedgerRowsFollowOkDispatch == [][LedgerWriteJustified]_vars

C7_Witness ==
    /\ \E k \in DOMAIN ledger :
          /\ ledger[k] = 1
          /\ inv[1].ledger0[k] = 0
          /\ \E j \in 1..Len(inv[1].dispatched) :
                inv[1].dispatched[j] = [user |-> k[1], item |-> k[2], result |-> "ok"]
    /\ \E j \in 1..Len(inv[1].dispatched) : inv[1].dispatched[j].result # "ok"
    /\ inv[1].pc = "done"

\* The fetched items, newest first, without a DeliveryRecord for the
\* recipient when the run started.
Unrecorded(r, userId) ==
    SelectSeq(r.recentProjects, LAMBDA x : r.ledger0[<<userId, x>>] = 0)

\* C8: in one scheduled run a matched recipient gets at most one dispatch,
\* and a recipient with an unrecorded fetched item is dispatched the most
\* recent of its unrecorded items.
C8_MostRecentUnrecordedOnce ==
    \A p \in Procs :
        LET r == inv[p]
        IN r.kind = "cron" =>
            \A i \in 1..Len(r.userList) :
                LET uid == r.userList[i].user_id
                IN /\ Cardinality(DispatchedTo(r, uid)) <= 1
                   /\ \A j \in DispatchedTo(r, uid) :
                         /\ Unrecorded(r, uid) # <<>>
                         /\ r.dispatched[j].item = Unrecorded(r, uid)[1]

\* C1: a scheduled run that directly follows another one for the same
\* effective slot sends nothing to a matched recipient who already has a
\* DeliveryRecord for the only fetched item.
C1_SecondRunSendsNothing ==
    \A p \in Procs :
        LET r == inv[p]
        IN ( /\ r.kind = "cron"
             /\ r.queried
             /\ lastRun = [kind |-> "cron", slot |-> <<r.effHour, r.effMinute>>]
             /\ Len(r.recentProjects) = 1 ) =>
            \A i \in 1..Len(r.userList) :
                r.ledger0[<<r.userList[i].user_id, r.recentProjects[1]>>] > 0
                    => DispatchedTo(r, r.userList[i].user_id) = {}

\* ---------------------------------------------------------------- C11
\* C11: after any sequence of invocations of the publish handler and the
\* scheduled job that do not overlap, every write succeeding, the ledger
\* holds at most one record for each (recipient, item) pair.
C11_AtMostOneRecordPerPair ==
    \A key \in UserIds \X ItemIds : ledger[key] <= 1

\* ---------------------------------------------------------------- C12
\* The invocation has dispatched the item to the recipient with answer
\* 'ok' and the history insert that follows has returned.
Recorded(r, key) ==
    \E j \in 1..Len(r.dispatched) :
        /\ r.dispatched[j] = [user |-> key[1], item |-> key[2], result |-> "ok"]
        /\ (j < Len(r.dispatched) \/ r.pc # "insert")

\* C12: nothing serialises two overlapping invocations: when both have
\* dispatched the same item to the same recipient and both inserts have
\* returned, the ledger holds two records for that pair. The race itself
\* (both runs start and read before either writes) is C12_Witness.
C12_OverlappingRunsWriteTwoRecords ==
    \A key \in UserIds \X ItemIds :
        (Recorded(inv[1], key) /\ Recorded(inv[2], key)) => ledger[key] >= 2

\* Two scheduled runs that both started on a ledger without (R, X), both
\* dispatched X to R, and left two records; history lookups never fail in
\* ConcSpec, so each run read R's history before the other wrote.
C12_Witness ==
    \E key \in UserIds \X ItemIds :
        /\ \A p \in Procs : /\ inv[p].kind = "cron"
                            /\ inv[p].pc = "done"
                            /\ inv[p].ledger0[key] = 0
                            /\ Recorded(inv[p], key)
        /\ ledger[key] = 2

\* ---------------------------------------------------------------- C13
\* The trigger carries the credential the job is configured with.
RightCredential(r) == r.auth = "secret"

\* C13: a scheduled run triggered without the right credential answers 401
\* at once: it queries neither the content store nor the recipient store,
\* dispatches nothing and leaves the ledger as it found it.
C13_WrongCredentialIs401 ==
    \A p \in Procs :
        LET r == inv[p]
        IN (r.kind = "cron" /\ ~RightCredential(r)) =>
            /\ r.pc = "done"
            /\ r.status = 401
            /\ r.fetch = "none"
            /\ ~r.queried
            /\ r.dispatched = <<>>
            /\ ledger = r.ledger0

\* A rejected trigger on a table with a recipient that an authorized run
\* would have served.
C13_Witness ==
    /\ inv[1].kind = "cron"
    /\ inv[1].auth = "wrong"
    /\ inv[1].status = 401
    /\ \E i \in 1..Len(users) : users[i].notifications_enabled

\* ---------------------------------------------------------------- C14
\* C14: an authorized scheduled run whose content-store query succeeds and
\* returns no recent item answers 200 without querying the recipient
\* store, dispatches nothing and writes no record.
C14_NoRecentItemsIsNoop ==
    \A p \in Procs :
        LET r == inv[p]
        IN (r.kind = "cron" /\ RightCredential(r)
              /\ r.fetch = "ok" /\ r.recentProjects = <<>>) =>
            /\ r.pc = "done"
            /\ r.status = 200
            /\ ~r.queried
            /\ r.userList = <<>>
            /\ r.dispatched = <<>>
            /\ ledger = r.ledger0

\* An empty fetch at 09:15, a time at which an enabled recipient's slot
\* matches.
C14_Witness ==
    /\ inv[1].kind = "cron"
    /\ inv[1].auth = "secret"
    /\ inv[1].fetch = "ok"
    /\ inv[1].recentProjects = <<>>
    /\ inv[1].status = 200
    /\ inv[1].now = <<9, 15>>
    /\ \E i \in 1..Len(users) : InWindow(users[i], 9, 15)

\* ---------------------------------------------------------------- C15
\* The place of a recipient in the answer of the recipient query.
PositionOf(r, userId) ==
    CHOOSE i \in 1..Len(r.userList) : r.userList[i].user_id = userId

\* C15: in the publish handlers and in the scheduled job, a failed dispatch
\* (gateway error, answer without data, thrown exception) never ends the
\* batch: the recipients returned by the query are processed one after the
\* other in the order of the answer, the invocation ends only after the
\* last of them, and it then answers 200.
C15_FailureDoesNotAbortBatch ==
    \A p \in Procs :
        LET r == inv[p]
        IN r.userList # <<>> =>
            /\ r.idx \in 1..(Len(r.userList) + 1)
            /\ (r.pc = "done") <=> (r.idx = Len(r.userList) + 1)
            /\ (r.pc = "done") => (r.status = 200)
            /\ \A j \in 1..Len(r.dispatched) :
                  /\ \E i \in 1..Len(r.userList) :
                        r.userList[i].user_id = r.dispatched[j].user
                  /\ PositionOf(r, r.dispatched[j].user) \in 1..r.idx
                  /\ \A k \in 1..(j - 1) :
                        PositionOf(r, r.dispatched[k].user)
                            < PositionOf(r, r.dispatched[j].user)

\* The dispatch to the first of two recipients threw, the second one was
\* served, and the answer is 200.
C15_Witness ==
    /\ inv[1].pc = "done"
    /\ inv[1].status = 200
    /\ Len(inv[1].userList) = 2
    /\ Len(inv[1].dispatched) = 2
    /\ inv[1].dispatched[1].user = inv[1].userList[1].user_id
    /\ inv[1].dispatched[1].result = "throw"
    /\ inv[1].dispatched[2].user = inv[1].userList[2].user_id
    /\ inv[1].dispatched[2].result = "ok"

\* ---------------------------------------------------------------- C16
\* A POST whose body parsed to an entry payload with its sys and fields
\* objects: an event the handler either processes or ignores.
WellFormedEvent(r) ==
    /\ r.req.method = "POST"
    /\ r.req.body = "object"
    /\ r.req.sys = "present"
    /\ r.req.fields = "present"

\* C16: the answer of every publish handler is 405 to a request that is
\* not a POST, 400 (never 500) to a POST whose body is missing or cannot
\* be parsed, 500 when the read of the recipient store fails, and 200 to
\* every well-formed event, processed or ignored.
C16_PublishStatusMapping ==
    \A p \in Procs :
        LET r == inv[p]
        IN (r.kind \in {"caseFile", "project", "logOnly"} /\ r.pc = "done") =>
            /\ (r.req.method # "POST") => (r.status = 405)
            /\ (r.req.method = "POST" /\ r.req.body \in {"missing", "invalid"})
                   => (r.status = 400)
            /\ r.userError => (r.status = 500)
            /\ (WellFormedEvent(r) /\ ~r.userError) => (r.status = 200)

\* ---------------------------------------------------------------- C17
\* The recipients of the store whose enabled flag is true.
EnabledIds == {users[i].user_id : i \in {n \in 1..Len(users) : users[n].notifications_enabled}}

\* C17: no handler ever dispatches to a recipient whose enabled flag is
\* false: every dispatch of an invocation goes to an enabled recipient
\* that its recipient query returned.
C17_OnlyEnabledRecipients ==
    \A p \in Procs :
        LET r == inv[p]
        IN \A j \in 1..Len(r.dispatched) :
              /\ r.dispatched[j].user \in EnabledIds
              /\ \E i \in 1..Len(r.userList) :
                    /\ r.userList[i].user_id = r.dispatched[j].user
                    /\ r.userList[i].notifications_enabled

\* A finished invocation that served the enabled recipient of a table whose
\* other recipient is disabled.
C17_Witness ==
    /\ Cardinality(EnabledIds) = 1
    /\ Len(users) = 2
    /\ inv[1].pc = "done"
    /\ \E j \in 1..Len(inv[1].dispatched) : inv[1].dispatched[j].result = "ok"

\* ---------------------------------------------------------------- C18
\* C18: when a publish handler has dispatched item X to recipient R with
\* success, the ledger holds a record (R, X) once the handler is done, and
\* a later scheduled run does not dispatch to a recipient an item that the
\* ledger recorded for that recipient before the run started.
C18_PublishedItemNotSentAgain ==
    \A p \in Procs :
        LET r == inv[p]
        IN /\ (r.kind \in {"caseFile", "project"} /\ r.pc = "done") =>
                  \A j \in 1..Len(r.dispatched) :
                      r.dispatched[j].result = "ok" =>
                          ledger[<<r.dispatched[j].user, r.dispatched[j].item>>] > 0
           /\ r.kind = "cron" =>
                  \A j \in 1..Len(r.dispatched) :
                      r.ledger0[<<r.dispatched[j].user, r.dispatched[j].item>>] = 0

\* ---------------------------------------------------------------- C19
\* The step in which a scheduled run gets the answer of the history lookup
\* of its current recipient and goes on to dispatch an item.
LookupChoosesItem(p) ==
    /\ inv[p].kind = "cron"
    /\ inv[p].pc = "lookup"
    /\ inv'[p].pc = "send"

\* The item chosen for dispatch has no record for the recipient in the
\* ledger as it is when the lookup is made.
ChosenItemUnrecorded(p) ==
    ledger[<<inv[p].userList[inv[p].idx].user_id, inv'[p].project>>] = 0

\* C19: whatever the history lookup answers, the scheduled job never goes on
\* to dispatch item X to recipient R when the ledger holds a record (R, X)
\* at the time of the lookup.
C19_NeverDispatchesRecordedItem ==
    [][\A p \in Procs : LookupChoosesItem(p) => ChosenItemUnrecorded(p)]_vars

\* ---------------------------------------------------------------- C20
\* The effective minute the specification assigns to a current minute.
QuarterOf(m) ==
    CASE m \in 0..7 -> 0
      [] m \in 8..22 -> 15
      [] m \in 23..37 -> 30
      [] m \in 38..52 -> 45
      [] m \in 53..59 -> 0

\* The time of day (hour, minute) of the latest trigger.
LastTrigger == <<(clock - 1) \div 60, (clock - 1) % 60>>

\* C20: for every current time (h, m) the effective minute is 0 for m in
\* 0..7, 15 for 8..22, 30 for 23..37, 45 for 38..52 and 0 for 53..59; the
\* effective hour is h, except for m >= 53 where it is (h + 1) mod 24, and
\* it always lies in 0..23.
C20_EffectiveSlotRounding ==
    clock > 0 =>
        /\ slot[2] = QuarterOf(LastTrigger[2])
        /\ slot[1] = IF LastTrigger[2] >= 53
                     THEN (LastTrigger[1] + 1) % 24
                     ELSE LastTrigger[1]
        /\ slot[1] \in 0..23

\* The trigger at 23:55 has run: its effective slot is 00:00.
C20_Witness ==
    /\ clock > 0
    /\ LastTrigger = <<23, 55>>
    /\ slot = <<0, 0>>

\* ---------------------------------------------------------------- C21
\* The publish handler has got the answer of its recipient query and has
\* gone through the recipient loop to its end.
LoopFinished(r) ==
    /\ r.kind \in {"caseFile", "project"}
    /\ r.queried
    /\ ~r.userError
    /\ r.pc = "done"

\* C21: at the end of every publish-handler invocation that reaches the
\* recipient loop, sent + skipped + errors is the number of fetched
\* recipients, each recipient being counted once: one count per dispatch
\* attempt (sent or errors, whatever the gateway or the history write
\* answered) and one skipped for each recipient without an attempt.
C21_EveryRecipientCountedOnce ==
    \A p \in Procs :
        LET r == inv[p]
        IN LoopFinished(r) =>
            /\ r.sent + r.skipped + r.errors = Len(r.userList)
            /\ r.sent + r.errors = Len(r.dispatched)
            /\ \A i \in 1..Len(r.userList) :
                  Cardinality(DispatchedTo(r, r.userList[i].user_id)) <= 1
            /\ r.skipped = Cardinality({i \in 1..Len(r.userList) :
                               DispatchedTo(r, r.userList[i].user_id) = {}})

\* A project handler run over two recipients: the gateway call of the
\* first one threw, the second was sent and its history write failed (the
\* ledger is as the run found it).
C21_Witness ==
    /\ LoopFinished(inv[1])
    /\ inv[1].kind = "project"
    /\ Len(inv[1].userList) = 2
    /\ inv[1].errors = 1
    /\ inv[1].sent = 1
    /\ inv[1].dispatched[1].result = "throw"
    /\ inv[1].dispatched[2].result = "ok"
    /\ ledger = inv[1].ledger0

\* ---------------------------------------------------------------- C22
\* The dispatches of the run that the gateway answered with status 'ok'.
OkDispatches(r) == {j \in 1..Len(r.dispatched) : r.dispatched[j].result = "ok"}

\* C22: the summary of a scheduled run reports as sent the number of
\* recipients whose dispatch the gateway answered 'ok' and as errors the
\* other dispatches, whether or not the record write after an 'ok' dispatch
\* succeeded; no recipient is dispatched to a second time in the run.
C22_SentCountsOkDispatches ==
    \A p \in Procs :
        LET r == inv[p]
        IN (r.kind = "cron" /\ r.pc = "done") =>
            /\ r.sent = Cardinality(OkDispatches(r))
            /\ r.errors = Len(r.dispatched) - Cardinality(OkDispatches(r))
            /\ \A i \in 1..Len(r.userList) :
                  Cardinality(DispatchedTo(r, r.userList[i].user_id)) <= 1

\* A finished run whose only dispatch was answered 'ok' and whose record
\* write failed: the pair is still absent from the ledger, one sent and no
\* error are reported.
C22_Witness ==
    /\ inv[1].kind = "cron"
    /\ inv[1].pc = "done"
    /\ inv[1].status = 200
    /\ Len(inv[1].dispatched) = 1
    /\ inv[1].dispatched[1].result = "ok"
    /\ ledger[<<inv[1].dispatched[1].user, inv[1].dispatched[1].item>>] = 0
    /\ inv[1].sent = 1
    /\ inv[1].errors = 0

\* ---------------------------------------------------------------- C23
\* One step of an invocation seen from its recipient loop: the log grows by
\* at most one dispatch, a new dispatch is to the current recipient while
\* every logged one is to an earlier recipient, and the loop leaves a
\* recipient whose dispatch was answered 'ok' only by the step in which the
\* record write returns (handlers that keep the ledger: job and project
\* handler).
SequentialStep(p) ==
    LET r == inv[p]
        n == inv'[p]
    IN /\ Len(n.dispatched) <= Len(r.dispatched) + 1
       /\ Len(n.dispatched) = Len(r.dispatched) + 1 =>
             /\ r.pc = "send"
             /\ n.dispatched[Len(n.dispatched)].user = r.userList[r.idx].user_id
             /\ \A j \in 1..Len(r.dispatched) :
                   PositionOf(r, r.dispatched[j].user) < r.idx
       /\ ( /\ r.kind \in {"cron", "project"}
            /\ n.kind = r.kind
            /\ n.idx = r.idx + 1
            /\ \E j \in OkDispatches(n) :
                  n.dispatched[j].user = r.userList[r.idx].user_id )
          => r.pc = "insert"

\* C23: within one invocation at most one dispatch is in flight, to the
\* current recipient, and after a successful dispatch the record write of
\* that recipient comes before the lookup or dispatch of the next one.
C23_OneRecipientAtATime == [][\A p \in Procs : SequentialStep(p)]_vars

\* The invocation is at the second recipient (lookup or dispatch pending)
\* and the record of the first recipient's 'ok' dispatch is in the ledger.
C23_Witness ==
    /\ inv[1].pc \in {"lookup", "send"}
    /\ inv[1].idx = 2
    /\ Len(inv[1].dispatched) = 1
    /\ inv[1].dispatched[1].result = "ok"
    /\ inv[1].dispatched[1].user = inv[1].userList[1].user_id
    /\ ledger[<<inv[1].dispatched[1].user, inv[1].dispatched[1].item>>]
          = inv[1].ledger0[<<inv[1].dispatched[1].user, inv[1].dispatched[1].item>>] + 1

\* ---------------------------------------------------------------- C24
\* An invocation that was neither rejected nor ignored and whose recipient
\* query succeeded.
Accepted(r) ==
    /\ r.queried
    /\ ~r.userError
    /\ \/ r.kind = "cron" /\ RightCredential(r) /\ r.recentProjects # <<>>
       \/ IsPublishEvent(r) /\ TagMatches(r) /\ r.req.sendNotification = "true"

\* One step of the system seen from the ledger: no pair loses a record, and
\* the ledger changes only by one new record, in the step with which an
\* accepted invocation returns from its record write.
AppendOnlyStep ==
    /\ \A k \in DOMAIN ledger : ledger'[k] >= ledger[k]
    /\ ledger' # ledger =>
          /\ \E k \in DOMAIN ledger :
                ledger' = [ledger EXCEPT ![k] = ledger[k] + 1]
          /\ \E p \in Procs :
                /\ inv'[p] # inv[p]
                /\ inv[p].pc = "insert"
                /\ Accepted(inv[p])

\* C24: across any sequence or interleaving of invocations of either
\* handler the multiset of records only grows: no record is removed or
\* changed, and the steps of rejected, ignored or failed invocations leave
\* the ledger unchanged.
C24_LedgerAppendOnly == [][AppendOnlyStep]_vars

\* A record is in the ledger, as it was when one instance rejected a
\* trigger (401), and the other instance has failed on its recipient
\* query (500).
C24_Witness ==
    /\ \E k \in DOMAIN ledger : ledger[k] = 1 /\ inv[1].ledger0[k] = 1
    /\ inv[1].pc = "done"
    /\ inv[1].status = 401
    /\ inv[2].pc = "done"
    /\ inv[2].status = 500
    /\ inv[2].userError

\* ---------------------------------------------------------------- C25
\* C25: for every recipient preference (hour, minute), the runs of one day
\* that match the recipient all have the same effective slot: the set of
\* effective slots at which the preference was matched never has two
\* members.
C25_SlotWindowsDisjoint == Cardinality(matchedAt) <= 1

\* The day is over for a recipient who prefers 09:08, the first minute of
\* a window: the runs that matched (09:08 to 09:22) were all for 09:15.
C25_Witness ==
    /\ clock = MinutesPerDay
    /\ pref = <<9, 8>>
    /\ matchedAt = {<<9, 15>>}

\* ---------------------------------------------------------------- C26
\* What the run answers when the content store returns no recent item.
NoopAnswer(r) ==
    /\ r.pc = "done"
    /\ r.status = 200
    /\ r.recentProjects = <<>>
    /\ r.userList = <<>>
    /\ r.sent = 0
    /\ r.errors = 0

\* C26: an authorized scheduled run whose content-store query fails behaves
\* as if no recent item existed: no recipient query, no dispatch and no
\* ledger write, and the answer is the no-op summary with status 200, not
\* a server error.
C26_FetchFailureIsNoop ==
    \A p \in Procs :
        LET r == inv[p]
        IN (r.kind = "cron" /\ RightCredential(r) /\ r.fetch = "error") =>
            /\ NoopAnswer(r)
            /\ ~r.queried
            /\ r.dispatched = <<>>
            /\ ledger = r.ledger0

\* A failed fetch at 09:15, a time at which an enabled recipient's slot
\* matches, answered with 200.
C26_Witness ==
    /\ inv[1].kind = "cron"
    /\ inv[1].auth = "secret"
    /\ inv[1].fetch = "error"
    /\ inv[1].status = 200
    /\ inv[1].now = <<9, 15>>
    /\ \E i \in 1..Len(users) : InWindow(users[i], 9, 15)

====
